---- MODULE Spec2Model ----
(***************************************************************************)
(* Model of cargo-contribute's dependency-to-issue pipeline:               *)
(*   - SuggestedIssuesProducer::suggest_issues (src/issues/producer.rs)    *)
(*   - pending_issues (src/issues/github.rs)                               *)
(*   - Client::lookup_crate (src/issues/crates_io.rs)                      *)
(*   - suggest_contributions (src/main.rs)                                 *)
(*   - canonicalize_label / ISSUE_LABELS (src/issues/producer.rs)          *)
(* Strings that the code inspects character by character (labels) are      *)
(* sequences of characters; a character is a one-element name.             *)
(***************************************************************************)
EXTENDS Integers, Sequences, FiniteSets, TLC

VARIABLES
    pc,         \* "start" | "running" | "exited": position of suggest_contributions
    count,      \* opts.count: NoLimit or a number
    remaining,  \* Take.remaining (NoLimit when no Take adapter was installed)
    deps,       \* shuffled dependencies not yet pulled by the and_then stage
    repo_set,   \* the HashSet captured by the filter_map closure
    hits,       \* per repository: how many dependencies resolved to it in this run
    opened,     \* per repository: how many times suggest_repo_issues was invoked
    srcs,       \* repositories in the order the fold select()-ed their streams
    flag,       \* Select.flag of every fold level
    fused,      \* Fuse.done of the accumulator side (stream1) of every fold level
    status,     \* per repository: state of its pending_issues stream
    cause,      \* per repository: the error its last failed page fetch returned
    lookupFailed, \* whether crates.io has failed a lookup of this run
    pathFailures, \* how many path dependencies of this run had no loadable manifest
    prev,       \* what the previous run in the same scripted environment ended with
    hist,       \* per repository: label lists of the items its search has yielded
    flat,       \* FlattenStream state: "Future" | "Stream" | "Eof"
    out,        \* issues handed to print_issue, in order
    errors,     \* errors returned by core.run, in order
    found,      \* the `found` local of suggest_contributions
    exit,       \* process exit status
    world,      \* the environment of the run: what the searches and the caller may do
    label,      \* label under test
    once,       \* canonicalize_label(label), once computed
    twice,      \* canonicalize_label(once), once computed
    passes,     \* how many times canonicalize_label has been applied to label
    arg,        \* input of the function under study (a URL, a manifest entry, ...)
    ret,        \* what the function returned for arg, once applied
    applied     \* whether the function has been applied to arg

pipevars == <<pc, count, remaining, deps, repo_set, hits, opened, srcs, flag, fused,
              status, cause, lookupFailed, pathFailures, prev, hist, flat, out, errors, found, exit, world>>
fnvars == <<arg, ret, applied>>
labvars == <<label, once, twice, passes, arg, ret, applied>>
vars == <<pc, count, remaining, deps, repo_set, hits, opened, srcs, flag, fused,
          status, cause, lookupFailed, pathFailures, prev, hist, flat, out, errors, found, exit, world, label, once, twice, passes,
          arg, ret, applied>>

(***************************************************************************)
(* Bounds                                                                  *)
(***************************************************************************)
MaxDeps == 3
MaxItems == 2
MaxMergeItems == 3
MaxLiveItems == 1
MaxLiveDeps == 2
MaxCount == 1
MaxLabelLen == 3
MaxReadyItems == 5
MaxScriptDeps == 2

\* Option::None of opts.count
NoLimit == -1
Unset == "unset"

(***************************************************************************)
(* Characters and the std::char predicates canonicalize_label relies on    *)
(***************************************************************************)
\* U+0130 LATIN CAPITAL LETTER I WITH DOT ABOVE and U+0307 COMBINING DOT ABOVE
IDot == "U+0130"
DotAbove == "U+0307"

LowerAscii == {"a", "b", "c", "d", "e", "f", "g", "h", "i", "l", "m", "n", "o", "p",
               "r", "s", "t", "u", "w", "y"}
UpperAscii == {"A", "E", "F", "G", "H", "I", "W"}
Digits == {"1"}
Whitespace == {" ", "\t"}

\* char::is_whitespace
is_whitespace(c) == c \in Whitespace

\* char::is_alphanumeric: Alphabetic or Numeric; U+0307 is a nonspacing mark (neither)
is_alphanumeric(c) == c \in LowerAscii \cup UpperAscii \cup Digits \cup {IDot}

\* char::is_uppercase
is_uppercase(c) == c \in UpperAscii \cup {IDot}

\* char::len_utf8: String::len counts bytes
len_utf8(c) == IF c \in {IDot, DotAbove} THEN 2 ELSE 1

\* char::to_lowercase: a sequence, since U+0130 lowercases to "i" followed by U+0307
char_to_lowercase(c) ==
    CASE c = "A" -> <<"a">> [] c = "E" -> <<"e">> [] c = "F" -> <<"f">>
      [] c = "G" -> <<"g">> [] c = "H" -> <<"h">> [] c = "I" -> <<"i">>
      [] c = "W" -> <<"w">> [] c = IDot -> <<"i", DotAbove>>
      [] OTHER -> <<c>>

RECURSIVE to_lowercase(_)
\* str::to_lowercase
to_lowercase(w) ==
    IF w = <<>> THEN <<>> ELSE char_to_lowercase(Head(w)) \o to_lowercase(Tail(w))

RECURSIVE ByteLen(_)
\* String::len
ByteLen(w) == IF w = <<>> THEN 0 ELSE len_utf8(Head(w)) + ByteLen(Tail(w))

RECURSIVE SplitFrom(_, _)
SplitFrom(s, cur) ==
    IF s = <<>> THEN <<cur>>
    ELSE IF is_whitespace(Head(s)) THEN <<cur>> \o SplitFrom(Tail(s), <<>>)
    ELSE SplitFrom(Tail(s), Append(cur, Head(s)))

\* str::split(char::is_whitespace): every separator ends one (possibly empty) piece
SplitWhitespace(s) == SplitFrom(s, <<>>)

RECURSIVE TrimStart(_)
TrimStart(w) == IF w # <<>> /\ is_whitespace(Head(w)) THEN TrimStart(Tail(w)) ELSE w

RECURSIVE TrimEnd(_)
TrimEnd(w) ==
    IF w # <<>> /\ is_whitespace(w[Len(w)]) THEN TrimEnd(SubSeq(w, 1, Len(w) - 1)) ELSE w

\* str::trim
Trim(w) == TrimEnd(TrimStart(w))

RECURSIVE Join_unspaced(_, _)
\* A join that forgets the separator
Join_unspaced(ws, sep) ==
    IF ws = <<>> THEN <<>> ELSE ws[1] \o Join_unspaced(Tail(ws), sep)

RECURSIVE Join(_, _)
\* Itertools::join
Join(ws, sep) ==
    IF ws = <<>> THEN <<>>
    ELSE IF Len(ws) = 1 THEN ws[1]
    ELSE ws[1] \o sep \o Join(Tail(ws), sep)

RECURSIVE Alphanumerics(_)
\* w.chars().filter(|c| c.is_alphanumeric()).collect::<String>()
Alphanumerics(w) ==
    IF w = <<>> THEN <<>>
    ELSE (IF is_alphanumeric(Head(w)) THEN <<Head(w)>> ELSE <<>>) \o Alphanumerics(Tail(w))

\* A freestanding capital letter: w.len() == 1 && w.chars().all(|c| c.is_uppercase())
IsSortingPrefix(w) == ByteLen(w) = 1 /\ \A i \in 1..Len(w) : is_uppercase(w[i])

RECURSIVE DropSortingPrefixes(_)
\* .filter(|w| !(w.len() == 1 && w.chars().all(|c| c.is_uppercase())))
DropSortingPrefixes(ws) ==
    IF ws = <<>> THEN <<>>
    ELSE (IF IsSortingPrefix(Head(ws)) THEN <<>> ELSE <<Head(ws)>>)
         \o DropSortingPrefixes(Tail(ws))

\* The words of a label, trimmed and stripped of everything not alphanumeric
StrippedWords(l) ==
    LET ws == SplitWhitespace(l) IN [i \in 1..Len(ws) |-> Alphanumerics(Trim(ws[i]))]

Lowercased(ws) == [i \in 1..Len(ws) |-> to_lowercase(ws[i])]

canonicalize_label(l) ==
    Join(Lowercased(DropSortingPrefixes(StrippedWords(l))), <<" ">>)

ISSUE_LABELS == {
    <<"h", "e", "l", "p", " ", "w", "a", "n", "t", "e", "d">>,
    <<"g", "o", "o", "d", " ", "f", "i", "r", "s", "t", " ", "i", "s", "s", "u", "e">>,
    <<"e", "a", "s", "y">>,
    <<"b", "e", "g", "i", "n", "n", "e", "r">> }


(***************************************************************************)
(* Data of the pipeline                                                    *)
(***************************************************************************)
\* Repository: equality and hashing are derived from both fields
Repository(o, n) == [owner |-> o, name |-> n]

\* Option::None of Option<Repository>
NoRepo == Repository("", "")

RepoSeq == <<Repository("a", "x"), Repository("a", "y"), Repository("b", "x")>>
Repos == {RepoSeq[i] : i \in 1..Len(RepoSeq)}

\* Repositories are told apart by the order in which a run first meets them:
\* the n-th repository some dependency resolves to is RepoSeq[n].
Known(h) == {r \in Repos : h[r] > 0}
Meetable(h) ==
    Known(h) \cup {RepoSeq[i] : i \in {j \in 1..Len(RepoSeq) : j = Cardinality(Known(h)) + 1}}

\* Label lists carried by the items a search may return
LblDocumentation ==
    <<"d", "o", "c", "u", "m", "e", "n", "t", "a", "t", "i", "o", "n">>
LblGoodFirstIssue ==
    <<"G", "o", "o", "d", " ", "F", "i", "r", "s", "t", " ", "I", "s", "s", "u", "e">>
LblBug == <<"b", "u", "g">>

LabelSamples == { <<>>, <<LblDocumentation>>, <<LblBug, LblGoodFirstIssue>> }

\* hubcaps errors a page fetch may fail with (code 0: not an HTTP fault)
HubcapsError(k, c) == [kind |-> k, code |-> c]
NoError == HubcapsError("none", 0)
FetchErrors == { HubcapsError("RateLimit", 0), HubcapsError("Fault", 422),
                 HubcapsError("Fault", 403), HubcapsError("Fault", 404),
                 HubcapsError("Fault", 500), HubcapsError("Codec", 0) }

\* Poll results travelling up the stream adapters
NotReady == [tag |-> "NotReady", repo |-> NoRepo, number |-> 0, err |-> NoError]
ReadyNone == [tag |-> "None", repo |-> NoRepo, number |-> 0, err |-> NoError]
ReadyItem(r, n) == [tag |-> "Item", repo |-> r, number |-> n, err |-> NoError]
PollErr(e) == [tag |-> "Err", repo |-> NoRepo, number |-> 0, err |-> e]

Outcome(res, st) == [res |-> res, st |-> st]

RECURSIVE SumLen(_, _)
SumLen(h, S) ==
    IF S = {} THEN 0
    ELSE LET r == CHOOSE x \in S : TRUE IN Len(h[r]) + SumLen(h, S \ {r})

(***************************************************************************)
(* pending_issues: search iterator, then() classification, take_while()    *)
(***************************************************************************)
\* Result of the then() closure for a failed page fetch, with 403 taken for fatal
ThenOnError_forbiddenFatal(e) ==
    IF e.kind = "RateLimit" THEN "None"
    ELSE IF e.kind = "Fault" /\ e.code = 422 THEN "None"
    ELSE "Err"

\* Result of the then() closure for a failed page fetch, with every fault swallowed
ThenOnError_allQuiet(e) ==
    IF e.kind \in {"RateLimit", "Fault"} THEN "None" ELSE "Err"

\* Result of the then() closure for a failed page fetch: Ok(None) or Err(e)
ThenOnError(e) ==
    IF e.kind = "RateLimit" THEN "None"
    ELSE IF e.kind = "Fault"
         THEN (IF e.code = 422 THEN "None"
               ELSE IF e.code = 403 THEN "None"
               ELSE "Err")
    ELSE "Err"

\* "exhausted": the search ran out; "quiet": take_while saw the None of a
\* swallowed error; "failed": the search returned an error that was passed on
EndedStatuses == {"exhausted", "quiet", "failed"}

\* take_while(is_some): done_taking (and hubcaps' own end) make every later poll None
TakeWhileEnds(s) == s \in EndedStatuses

\* One poll of the stream returned by pending_issues for repository r, in an
\* environment w whose searches hold w.items issues in all and fail only if w.faults;
\* the searches of the repositories in w.ready answer at once while issues are left;
\* with a script every search returns what w.script.plan has for its repository,
\* at the time it chooses
PendingIssuesPoll(w, r, st) ==
    IF TakeWhileEnds(st.status[r]) THEN {Outcome(ReadyNone, st)}
    ELSE IF w.script.on
    THEN {Outcome(NotReady, st)}
         \cup { LET p == w.script.plan[r]
                    k == Len(st.hist[r])
                IN IF k < Len(p.labels)
                   THEN Outcome(ReadyItem(r, k + 1),
                                [st EXCEPT !.hist[r] = Append(@, p.labels[k + 1])])
                   ELSE IF p.ending = NoError
                   THEN Outcome(ReadyNone, [st EXCEPT !.status[r] = "exhausted"])
                   ELSE IF ThenOnError(p.ending) = "None"
                   THEN Outcome(ReadyNone, [st EXCEPT !.status[r] = "quiet",
                                                      !.cause[r] = p.ending])
                   ELSE Outcome(PollErr(p.ending), [st EXCEPT !.status[r] = "failed",
                                                               !.cause[r] = p.ending]) }
    ELSE IF r \in w.ready /\ SumLen(st.hist, Repos) < w.items
    THEN { Outcome(ReadyItem(r, Len(st.hist[r]) + 1),
                   [st EXCEPT !.hist[r] = Append(@, ls)])
           : ls \in LabelSamples }
    ELSE
        {Outcome(NotReady, st)}
        \cup (IF SumLen(st.hist, Repos) < w.items
              THEN { Outcome(ReadyItem(r, Len(st.hist[r]) + 1),
                             [st EXCEPT !.hist[r] = Append(@, ls)])
                     : ls \in LabelSamples }
              ELSE {})
        \cup (IF st.status[r] = "active"
              THEN {Outcome(ReadyNone, [st EXCEPT !.status[r] = "exhausted"])}
                   \cup { IF ThenOnError(e) = "None"
                          THEN Outcome(ReadyNone, [st EXCEPT !.status[r] = "quiet",
                                                             !.cause[r] = e])
                          ELSE Outcome(PollErr(e), [st EXCEPT !.status[r] = "failed",
                                                              !.cause[r] = e])
                          : e \in IF w.faults THEN FetchErrors ELSE {} }
              ELSE {})

(***************************************************************************)
(* suggest_repo_issues: the label filter                                   *)
(***************************************************************************)
\* canonicalize_label, tabulated over the labels the searches can carry
CanonicalLabel ==
    [l \in UNION { {ls[i] : i \in 1..Len(ls)} : ls \in LabelSamples }
       |-> canonicalize_label(l)]

\* A filter that compares the raw label
Accepts_raw(labels) == \E i \in 1..Len(labels) : labels[i] \in ISSUE_LABELS

\* The closure given to filter(): some label is in ISSUE_LABELS once canonicalized
Accepts(labels) ==
    \E i \in 1..Len(labels) : CanonicalLabel[labels[i]] \in ISSUE_LABELS

RECURSIVE SuggestRepoIssuesPoll(_, _, _)
\* One poll of the stream returned by suggest_repo_issues (Filter::poll loops)
SuggestRepoIssuesPoll(w, r, st) ==
    UNION { IF o.res.tag = "Item" /\ ~Accepts(o.st.hist[r][o.res.number])
            THEN SuggestRepoIssuesPoll(w, r, o.st)
            ELSE {o}
            : o \in PendingIssuesPoll(w, r, st) }

(***************************************************************************)
(* fold(empty, |acc, x| acc.select(x)): the chain of Select adapters       *)
(***************************************************************************)
RECURSIVE SelectPoll(_, _, _, _)
RECURSIVE FusedAccPoll(_, _, _, _)

\* A Fuse that takes "not ready" for the end of the accumulator
FusedAccPoll_eager(w, ss, k, st) ==
    IF st.fused[k] THEN {Outcome(ReadyNone, st)}
    ELSE { IF o.res.tag \in {"None", "NotReady"}
           THEN Outcome(o.res, [o.st EXCEPT !.fused[k] = TRUE])
           ELSE o
           : o \in SelectPoll(w, ss, k - 1, st) }

\* Fuse around the accumulator (stream1) of fold level k
FusedAccPoll(w, ss, k, st) ==
    IF st.fused[k] THEN {Outcome(ReadyNone, st)}
    ELSE { IF o.res.tag = "None"
           THEN Outcome(o.res, [o.st EXCEPT !.fused[k] = TRUE])
           ELSE o
           : o \in SelectPoll(w, ss, k - 1, st) }

\* Select::poll: after an item from b, a goes first again unless a is finished
GivesTurnBack(a_done) == ~a_done

\* A Select that always polls the same side first
Toggle_stuck(f) == f

\* self.flag = !self.flag
Toggle(f) == ~f

\* Select::poll of fold level k (level 0 is stream::empty())
SelectPoll(w, ss, k, st) ==
    IF k = 0 THEN {Outcome(ReadyNone, st)}
    ELSE
        UNION {
          IF oa.res.tag \in {"Err", "Item"} THEN {oa}
          ELSE { IF ob.res.tag = "Err" THEN ob
                 ELSE IF ob.res.tag = "Item"
                      THEN Outcome(ob.res,
                                   IF GivesTurnBack(oa.res.tag = "None")
                                   THEN [ob.st EXCEPT !.flag[k] = Toggle(@)]
                                   ELSE ob.st)
                 ELSE IF ob.res.tag = "None" /\ oa.res.tag = "None"
                      THEN Outcome(ReadyNone, ob.st)
                 ELSE Outcome(NotReady, ob.st)
                 : ob \in IF st.flag[k]
                          THEN FusedAccPoll(w, ss, k, oa.st)
                          ELSE SuggestRepoIssuesPoll(w, ss[k], oa.st) }
          : oa \in IF st.flag[k]
                   THEN SuggestRepoIssuesPoll(w, ss[k], [st EXCEPT !.flag[k] = Toggle(@)])
                   ELSE FusedAccPoll(w, ss, k, [st EXCEPT !.flag[k] = Toggle(@)]) }


(***************************************************************************)
(* Repository resolution: repo_for_dependency and Client::lookup_crate     *)
(***************************************************************************)
\* What the world answers when a dependency is resolved.  "local": the cache
\* or a git URL decide without the network; "path": a path dependency, whose
\* directory may not resolve ("canonicalize_err") and whose manifest may not load
\* ("read_err"); "crates_io": the registry is asked and answers with an HTTP
\* status (0: transport failure).
Resolutions ==
    [via : {"local"}, status : {0}, json : {TRUE}, fs : {"ok"}, repo : Repos \cup {NoRepo}]
    \cup [via : {"path"}, status : {0}, json : {TRUE}, fs : {"ok"}, repo : Repos \cup {NoRepo}]
    \cup [via : {"path"}, status : {0}, json : {TRUE},
          fs : {"canonicalize_err", "read_err"}, repo : {NoRepo}]
    \cup [via : {"crates_io"}, status : {200}, json : {TRUE}, fs : {"ok"},
          repo : Repos \cup {NoRepo}]
    \cup [via : {"crates_io"}, status : {200}, json : {FALSE}, fs : {"ok"}, repo : {NoRepo}]
    \cup [via : {"crates_io"}, status : {0, 404, 500}, json : {TRUE}, fs : {"ok"},
          repo : {NoRepo}]

Resolved(r) == [ok |-> TRUE, repo |-> r, err |-> "none"]
LookupFailed(e) == [ok |-> FALSE, repo |-> NoRepo, err |-> e]

\* A registry answer that is a transport failure, an unexpected status or bad JSON
RegistryFailure(w) ==
    /\ w.via = "crates_io"
    /\ w.status \notin {200, 404} \/ (w.status = 200 /\ ~w.json)

\* Client::lookup_crate with every failure turned into "crate not found"
lookup_crate_lenient(w) ==
    IF w.status = 200 /\ w.json THEN Resolved(w.repo) ELSE Resolved(NoRepo)

\* Client::lookup_crate
lookup_crate(w) ==
    IF w.status = 0 THEN LookupFailed("Http")
    ELSE IF w.status = 200
         THEN (IF w.json THEN Resolved(w.repo) ELSE LookupFailed("Json"))
    ELSE IF w.status = 404 THEN Resolved(NoRepo)
    ELSE LookupFailed("Http")

\* A path dependency whose directory does not resolve or whose manifest does not load
PathFailure(w) == w.via = "path" /\ w.fs # "ok"

\* A Filesystem branch that hands the error of canonicalize or read_package on
filesystem_branch_failing(w) ==
    IF w.fs = "ok" THEN Resolved(w.repo) ELSE LookupFailed("Io")

\* The Filesystem branch: future::ok of an Option that .ok() has emptied on any error
filesystem_branch(w) ==
    IF w.fs = "ok" THEN Resolved(w.repo) ELSE Resolved(NoRepo)

\* repo_for_dependency, seen from suggest_issues
repo_for_dependency(w) ==
    IF w.via = "local" THEN Resolved(w.repo)
    ELSE IF w.via = "path" THEN filesystem_branch(w)
    ELSE lookup_crate(w)

(***************************************************************************)
(* suggest_contributions: Take, for_each and the exit status               *)
(***************************************************************************)
\* Take::poll that forwards the poll whatever `remaining` is
TakePolls_always(rem) == TRUE

\* Take::poll forwards the poll only while remaining > 0
TakePolls(rem) == IF rem = NoLimit THEN TRUE ELSE rem > 0

TakeItem(rem) == IF rem = NoLimit THEN NoLimit ELSE rem - 1

\* for_each that goes on after an error
ForEachNext_ignoreErr(tag) == IF tag = "None" THEN "exited" ELSE "running"

\* ForEach::poll: an error or the end of the stream completes core.run
ForEachNext(tag) == IF tag \in {"Err", "None"} THEN "exited" ELSE "running"

\* Exit status chosen by suggest_contributions once core.run has returned
ExitStatus(tag, old) ==
    IF tag = "Err" THEN "TEMPFAIL" ELSE IF tag = "None" THEN "OK" ELSE old

SurfacedError(src, e) == [source |-> src, kind |-> e.kind, code |-> e.code]

\* filter_map closure that forgets to record the repository
RepoSetInsert_forget(set, repo) == set

\* repo_set.insert(repo.clone())
RepoSetInsert(set, repo) == set \cup {repo}

\* HashSet::new()
NewRepoSet(old) == {}

Shuffles(n) == { p \in [1..n -> 1..n] : \A i, j \in 1..n : p[i] = p[j] => i = j }

(***************************************************************************)
(* Initial state                                                           *)
(***************************************************************************)
\* No run has ended yet in this environment
NoPrev ==
    [ran |-> FALSE, count |-> NoLimit, srcs |-> <<>>, searched |-> {}, issues |-> {},
     exit |-> Unset]

Idle ==
    /\ pc = "idle"
    /\ count = NoLimit
    /\ remaining = NoLimit
    /\ deps = <<>>
    /\ repo_set = {}
    /\ hits = [r \in Repos |-> 0]
    /\ opened = [r \in Repos |-> 0]
    /\ srcs = <<>>
    /\ flag = <<>>
    /\ fused = <<>>
    /\ status = [r \in Repos |-> "unopened"]
    /\ cause = [r \in Repos |-> NoError]
    /\ lookupFailed = FALSE
    /\ pathFailures = 0
    /\ prev = NoPrev
    /\ hist = [r \in Repos |-> <<>>]
    /\ flat = "Future"
    /\ out = <<>>
    /\ errors = <<>>
    /\ found = FALSE
    /\ exit = Unset

\* The environment of Spec: searches may fail, the caller may pass --count
NoScript ==
    [on |-> FALSE, res |-> <<>>,
     plan |-> [r \in Repos |-> [labels |-> <<>>, ending |-> NoError]]]

World ==
    [faults |-> TRUE, limits |-> TRUE, items |-> MaxItems, deps |-> MaxDeps, ready |-> {},
     script |-> NoScript]

\* The environment of SpecMerge: no search fails, each may hold more issues
MergeWorld ==
    [faults |-> FALSE, limits |-> TRUE, items |-> MaxMergeItems, deps |-> MaxDeps,
     ready |-> {}, script |-> NoScript]

FnIdle ==
    /\ arg = <<>>
    /\ ret = <<>>
    /\ applied = FALSE

LabIdle ==
    /\ label = <<>>
    /\ once = <<>>
    /\ twice = <<>>
    /\ passes = 0
    /\ FnIdle

Init == Idle /\ world = World /\ LabIdle

MergeInit == Idle /\ world = MergeWorld /\ LabIdle

\* The environment of FairSpec: as World, with fewer issues and dependencies
LiveWorld ==
    [faults |-> TRUE, limits |-> TRUE, items |-> MaxLiveItems, deps |-> MaxLiveDeps,
     ready |-> {}, script |-> NoScript]

LiveInit == Idle /\ world = LiveWorld /\ LabIdle

\* The environments of SpecReady: no search fails, and the searches
\* of the repositories in R always have their next issue at hand
ReadyWorld(R) ==
    [faults |-> FALSE, limits |-> TRUE, items |-> MaxReadyItems, deps |-> MaxDeps,
     ready |-> R, script |-> NoScript]

\* What a scripted dependency resolves to: a repository, nothing, a path
\* dependency without a manifest, or a failed crates.io lookup
ScriptResolutions ==
    { w \in Resolutions :
        \/ w.via = "local" /\ w.repo \in {RepoSeq[1], RepoSeq[2], NoRepo}
        \/ w.via = "path" /\ w.fs = "read_err"
        \/ w.via = "crates_io" /\ w.status = 500 }

\* What the scripted search of a repository returns: no issue, one that the
\* filter accepts or one that it drops, then its end, a rate limit or a
\* server error
ScriptPlans ==
    [labels : {<<>>, <<<<LblBug, LblGoodFirstIssue>>>>, <<<<LblDocumentation>>>>},
     ending : {NoError, HubcapsError("RateLimit", 0), HubcapsError("Fault", 500)}]

Scripts ==
    { [on |-> TRUE, res |-> res, plan |-> plan] :
        res \in [1..MaxScriptDeps -> ScriptResolutions],
        plan \in { q \in [Repos -> ScriptPlans] : q[RepoSeq[3]] = NoScript.plan[RepoSeq[3]] } }

\* The environments of SpecShuffle: every dependency has its resolution and
\* every repository its search results, the same in every run
ShuffleWorld(sc) ==
    [faults |-> FALSE, limits |-> TRUE, items |-> MaxItems, deps |-> MaxScriptDeps,
     ready |-> {}, script |-> sc]

ShuffleInit ==
    /\ Idle
    /\ world \in {ShuffleWorld(sc) : sc \in Scripts}
    /\ LabIdle

ReadyInit ==
    /\ Idle
    /\ world \in {ReadyWorld(R) : R \in SUBSET Repos \ {{}}}
    /\ LabIdle

(***************************************************************************)
(* Actions of the pipeline                                                 *)
(***************************************************************************)
\* suggest_contributions up to core.run: the manifest is found and read, the
\* dependencies are shuffled, the stream is built and wrapped in take(count).
StartRun ==
    /\ pc = "idle"
    /\ \E n \in (IF world.script.on THEN {Len(world.script.res)} ELSE 0..world.deps),
          c \in {NoLimit} \cup (IF world.limits THEN 0..MaxCount ELSE {}) :
         \E p \in Shuffles(n) :
            /\ deps' = p
            /\ count' = c
            /\ remaining' = c
    /\ pc' = "running"
    /\ repo_set' = NewRepoSet(repo_set)
    /\ hits' = [r \in Repos |-> 0]
    /\ opened' = [r \in Repos |-> 0]
    /\ srcs' = <<>>
    /\ flag' = <<>>
    /\ fused' = <<>>
    /\ status' = [r \in Repos |-> "unopened"]
    /\ cause' = [r \in Repos |-> NoError]
    /\ lookupFailed' = FALSE
    /\ pathFailures' = 0
    /\ hist' = [r \in Repos |-> <<>>]
    /\ flat' = "Future"
    /\ out' = <<>>
    /\ errors' = <<>>
    /\ found' = FALSE
    /\ exit' = Unset
    /\ UNCHANGED <<world, prev>>
    /\ UNCHANGED labvars

\* One iteration of the fold while the FlattenStream is still in State::Future:
\* and_then resolves the next dependency, filter_map drops repeats, map calls
\* suggest_repo_issues and the fold closure select()s the new stream.
\* A failed lookup fails the fold, and with it the whole stream.
FoldStep ==
    /\ pc = "running"
    /\ TakePolls(remaining)
    /\ flat = "Future"
    /\ deps # <<>>
    /\ deps' = Tail(deps)
    /\ \E w \in (IF world.script.on THEN {world.script.res[Head(deps)]}
                ELSE {x \in Resolutions : x.repo \in Meetable(hits) \cup {NoRepo}}) :
         LET res == repo_for_dependency(w) IN
         /\ lookupFailed' = (lookupFailed \/ RegistryFailure(w))
         /\ pathFailures' = (IF PathFailure(w) THEN pathFailures + 1 ELSE pathFailures)
         /\ IF ~res.ok
            THEN /\ flat' = "Eof"
                 /\ errors' = Append(errors, SurfacedError("CratesIo", HubcapsError(res.err, 0)))
                 /\ pc' = ForEachNext("Err")
                 /\ exit' = ExitStatus("Err", exit)
                 /\ UNCHANGED <<repo_set, hits, opened, srcs, flag, fused, status>>
            ELSE /\ UNCHANGED <<flat, errors, pc, exit>>
                 /\ IF res.repo = NoRepo
                    THEN UNCHANGED <<repo_set, hits, opened, srcs, flag, fused, status>>
                    ELSE /\ hits' = [hits EXCEPT ![res.repo] = @ + 1]
                         /\ IF res.repo \in repo_set
                            THEN UNCHANGED <<repo_set, opened, srcs, flag, fused, status>>
                            ELSE /\ repo_set' = RepoSetInsert(repo_set, res.repo)
                                 /\ opened' = [opened EXCEPT ![res.repo] = @ + 1]
                                 /\ status' = [status EXCEPT ![res.repo] = "active"]
                                 /\ srcs' = Append(srcs, res.repo)
                                 /\ flag' = Append(flag, FALSE)
                                 /\ fused' = Append(fused, FALSE)
    /\ UNCHANGED <<count, remaining, cause, hist, out, found, world, prev>>
    /\ UNCHANGED labvars

\* A consumer that puts the newest issue first
Emit_newestFirst(printed, issue) == <<issue>> \o printed

\* for_each hands every issue to print_issue as it comes: one println per issue
Emit(printed, issue) == Append(printed, issue)

\* One poll of the folded stream by for_each, through take(): the fold is
\* finished, FlattenStream polls the chain of Selects.
Poll ==
    /\ pc = "running"
    /\ TakePolls(remaining)
    /\ flat # "Eof"
    /\ deps = <<>>
    /\ flat' = "Stream"
    /\ \E o \in SelectPoll(world, srcs, Len(srcs),
                           [hist |-> hist, status |-> status, cause |-> cause,
                            flag |-> flag, fused |-> fused]) :
         /\ hist' = o.st.hist
         /\ status' = o.st.status
         /\ cause' = o.st.cause
         /\ flag' = o.st.flag
         /\ fused' = o.st.fused
         /\ pc' = ForEachNext(o.res.tag)
         /\ exit' = ExitStatus(o.res.tag, exit)
         /\ IF o.res.tag = "Item"
            THEN /\ out' = Emit(out, [repo |-> o.res.repo, number |-> o.res.number])
                 /\ remaining' = TakeItem(remaining)
                 /\ found' = TRUE
            ELSE UNCHANGED <<out, remaining, found>>
         /\ IF o.res.tag = "Err"
            THEN errors' = Append(errors, SurfacedError("GitHub", o.res.err))
            ELSE UNCHANGED errors
    /\ UNCHANGED <<count, deps, repo_set, hits, opened, srcs, lookupFailed, pathFailures,
                   prev, world>>
    /\ UNCHANGED labvars

\* A poll that Take (remaining = 0) or FlattenStream (State::Eof) answers with
\* "end of stream" without polling anything: for_each completes, exit(OK).
StreamEnd ==
    /\ pc = "running"
    /\ ~TakePolls(remaining) \/ flat = "Eof"
    /\ pc' = ForEachNext("None")
    /\ exit' = ExitStatus("None", exit)
    /\ UNCHANGED <<count, remaining, deps, repo_set, hits, opened, srcs, flag, fused,
                   status, cause, lookupFailed, pathFailures, prev, hist, flat, out, errors,
                   found, world>>
    /\ UNCHANGED labvars

\* The run is over and its stream dropped; the producer can be asked again.
\* Only what suggest_issues does not build anew could outlive the run: the
\* model keeps the old repo_set in place so that building it anew shows.
Relaunch ==
    /\ pc = "exited"
    /\ pc' = "idle"
    /\ count' = NoLimit
    /\ remaining' = NoLimit
    /\ deps' = <<>>
    /\ hits' = [r \in Repos |-> 0]
    /\ opened' = [r \in Repos |-> 0]
    /\ srcs' = <<>>
    /\ flag' = <<>>
    /\ fused' = <<>>
    /\ status' = [r \in Repos |-> "unopened"]
    /\ cause' = [r \in Repos |-> NoError]
    /\ lookupFailed' = FALSE
    /\ pathFailures' = 0
    /\ hist' = [r \in Repos |-> <<>>]
    /\ flat' = "Future"
    /\ out' = <<>>
    /\ errors' = <<>>
    /\ found' = FALSE
    /\ exit' = Unset
    /\ prev' = (IF world.script.on
                THEN [ran |-> TRUE, count |-> count, srcs |-> srcs,
                      searched |-> {r \in Repos : opened[r] > 0},
                      issues |-> {out[i] : i \in 1..Len(out)}, exit |-> exit]
                ELSE prev)
    /\ UNCHANGED <<repo_set, world>>
    /\ UNCHANGED labvars

Next == StartRun \/ FoldStep \/ Poll \/ StreamEnd \/ Relaunch

Spec == Init /\ [][Next]_vars

SpecMerge == MergeInit /\ [][Next]_vars

SpecReady == ReadyInit /\ [][Next]_vars

SpecShuffle == ShuffleInit /\ [][Next]_vars

\* A step of the run that resolves a dependency, takes something from a search,
\* sees a search end, or ends the run (a poll that finds nothing ready is none)
ProgressStep ==
    /\ FoldStep \/ Poll \/ StreamEnd
    /\ deps' # deps \/ hist' # hist \/ status' # status \/ pc' # pc

\* One run of the program: suggest_contributions ends in exit()
RunNext == StartRun \/ FoldStep \/ Poll \/ StreamEnd

\* The reactor polls the stream again whenever a lookup or a page fetch has
\* completed, and every request completes or times out
FairSpec == LiveInit /\ [][RunNext]_vars /\ WF_vars(ProgressStep)

(***************************************************************************)
(* canonicalize_label applied to arbitrary labels                          *)
(***************************************************************************)
LabChars == {"a", "E", " ", "\t", "-", IDot, DotAbove}

LabelStrings == UNION {[1..n -> LabChars] : n \in 0..MaxLabelLen}

LabInit ==
    /\ Idle
    /\ world = World
    /\ label \in LabelStrings
    /\ once = <<>>
    /\ twice = <<>>
    /\ passes = 0
    /\ FnIdle

Canonicalize ==
    /\ passes = 0
    /\ once' = canonicalize_label(label)
    /\ passes' = 1
    /\ UNCHANGED <<label, twice>>
    /\ UNCHANGED fnvars
    /\ UNCHANGED pipevars

Recanonicalize ==
    /\ passes = 1
    /\ twice' = canonicalize_label(once)
    /\ passes' = 2
    /\ UNCHANGED <<label, once>>
    /\ UNCHANGED fnvars
    /\ UNCHANGED pipevars

LabNext == Canonicalize \/ Recanonicalize

SpecLabel == LabInit /\ [][LabNext]_vars

(***************************************************************************)
(* canonicalize_label applied to spellings of one label                    *)
(***************************************************************************)
\* Spellings of the two words of "help wanted": case varies
HelpSpellings == << <<"h", "e", "l", "p">>, <<"H", "e", "l", "p">>, <<"h", "E", "l", "p">> >>
WantedSpellings ==
    << <<"w", "a", "n", "t", "e", "d">>, <<"W", "a", "n", "t", "e", "d">>,
       <<"w", "A", "n", "t", "E", "d">> >>

\* Runs of whitespace around and between the words
OuterSpace == { <<>>, <<" ">>, <<"\t">> }
InnerSpace == { <<" ">>, <<"\t">>, <<" ", " ">>, <<" ", "\t">> }

\* Where a non-alphanumeric character is put: nowhere, inside the first word,
\* after the second word
PunctuationPlaces == {"none", "inside", "after"}

SpellingArgs ==
    [entry : {FALSE}, text : {<<>>}, caps : 1..3, punct : PunctuationPlaces,
     lead : OuterSpace, sep : InnerSpace, trail : OuterSpace]

\* The allow-list entries, spelled as they are in the source
EntryArgs ==
    [entry : {TRUE}, text : ISSUE_LABELS, caps : {1}, punct : {"none"},
     lead : {<<>>}, sep : {<<" ">>}, trail : {<<>>}]

\* The label a spelling stands for
SpelledLabel(a) ==
    IF a.entry THEN a.text
    ELSE LET h == HelpSpellings[a.caps]
             w == WantedSpellings[a.caps]
             first == IF a.punct = "inside"
                      THEN SubSeq(h, 1, 2) \o <<"-">> \o SubSeq(h, 3, 4) ELSE h
             second == IF a.punct = "after" THEN w \o <<"!">> ELSE w
         IN a.lead \o first \o a.sep \o second \o a.trail

SpellInit ==
    /\ Idle
    /\ world = World
    /\ arg \in SpellingArgs \cup EntryArgs
    /\ label = SpelledLabel(arg)
    /\ once = <<>>
    /\ twice = <<>>
    /\ passes = 0
    /\ ret = <<>>
    /\ applied = FALSE

SpecSpelling == SpellInit /\ [][LabNext]_vars

(***************************************************************************)
(* Repository locators: the two regular expressions for git URLs and       *)
(* Repository::from_http_url                                               *)
(***************************************************************************)
S_http == <<"h", "t", "t", "p">>
S_colonSlashes == <<":", "/", "/">>
S_www == <<"w", "w", "w", ".">>
S_github == <<"g", "i", "t", "h", "u", "b", ".", "c", "o", "m">>
S_elsewhere == <<"g", "i", "t", "l", "a", "b", ".", "c", "o", "m">>
S_dotgit == <<".", "g", "i", "t">>
S_gitAt == <<"g", "i", "t", "@">>

\* Option<Repository>
Some(r) == [some |-> TRUE, repo |-> r]
None == [some |-> FALSE, repo |-> Repository(<<>>, <<>>)]

\* \w of the regex crate: letters, digits and the underscore
IsWordChar(c) == c \in LowerAscii \cup UpperAscii \cup {"X", "j"} \cup Digits \cup {"_"}

\* Whether literal lit stands in u at position i
LitAt(u, i, lit) ==
    i + Len(lit) - 1 <= Len(u) /\ SubSeq(u, i, i + Len(lit) - 1) = lit

\* Position after an optional literal (the regex takes it when it is there)
AfterOpt(u, i, lit) == IF LitAt(u, i, lit) THEN i + Len(lit) ELSE i

RECURSIVE WordRunEnd(_, _)
\* First position from i on that holds no word character (\w+ is greedy)
WordRunEnd(u, i) ==
    IF i <= Len(u) /\ IsWordChar(u[i]) THEN WordRunEnd(u, i + 1) ELSE i

RECURSIVE NoDotRunEnd(_, _)
\* First position from i on that holds a dot, or the end ([^.]+ is greedy)
NoDotRunEnd(u, i) ==
    IF i <= Len(u) /\ u[i] # "." THEN NoDotRunEnd(u, i + 1) ELSE i

NoCaptures == [ok |-> FALSE, owner |-> <<>>, name |-> <<>>]

\* (?P<owner>\w+)/(?P<name>[^.]+) from position i, then `tail` if mustTail
OwnerSlashName(u, i, tail, mustTail) ==
    LET oe == WordRunEnd(u, i)
        ne == NoDotRunEnd(u, oe + 1)
    IN IF /\ oe > i
          /\ LitAt(u, oe, <<"/">>)
          /\ ne > oe + 1
          /\ (mustTail => LitAt(u, ne, tail))
       THEN [ok |-> TRUE, owner |-> SubSeq(u, i, oe - 1), name |-> SubSeq(u, oe + 1, ne - 1)]
       ELSE NoCaptures

\* GITHUB_GIT_HTTPS_URL_RE tried at position i:
\* https?://(www\.)?github\.com/(?P<owner>\w+)/(?P<name>[^.]+)(\.git)?
HttpsReAt(u, i) ==
    IF ~LitAt(u, i, S_http) THEN NoCaptures
    ELSE LET j == AfterOpt(u, i + Len(S_http), <<"s">>) IN
         IF ~LitAt(u, j, S_colonSlashes) THEN NoCaptures
         ELSE LET k == AfterOpt(u, j + Len(S_colonSlashes), S_www) IN
              IF ~LitAt(u, k, S_github \o <<"/">>) THEN NoCaptures
              ELSE OwnerSlashName(u, k + Len(S_github) + 1, S_dotgit, FALSE)

\* GITHUB_GIT_SSH_URL_RE tried at position i:
\* git@github\.com:(?P<owner>\w+)/(?P<name>[^.]+)\.git
SshReAt(u, i) ==
    IF ~LitAt(u, i, S_gitAt \o S_github \o <<":">>) THEN NoCaptures
    ELSE OwnerSlashName(u, i + Len(S_gitAt) + Len(S_github) + 1, S_dotgit, TRUE)

\* Regex::captures: the leftmost match (the expressions are not anchored)
HttpsCaptures(u) ==
    LET hits_ == {i \in 1..Len(u) : HttpsReAt(u, i).ok}
    IN IF hits_ = {} THEN NoCaptures
       ELSE HttpsReAt(u, CHOOSE i \in hits_ : \A j \in hits_ : i <= j)

SshCaptures(u) ==
    LET hits_ == {i \in 1..Len(u) : SshReAt(u, i).ok}
    IN IF hits_ = {} THEN NoCaptures
       ELSE SshReAt(u, CHOOSE i \in hits_ : \A j \in hits_ : i <= j)

\* repo_for_dependency, CrateLocation::Git
repo_for_git(url) ==
    LET caps == IF HttpsCaptures(url).ok THEN HttpsCaptures(url) ELSE SshCaptures(url)
    IN IF caps.ok THEN Some(Repository(caps.owner, caps.name)) ELSE None

\* Owners and names GitHub allows: letters, digits, '-', '_' and (names) '.'
GitOwners == { <<"X", "i", "o", "n">>, <<"a", "_", "1">>,
               <<"r", "u", "s", "t", "-", "l", "a", "n", "g">> }
GitNames == { <<"g", "i", "s", "h", "t">>, <<"m", "y", "_", "l", "o", "g">>,
              <<"s", "e", "r", "d", "e", "-", "j", "s", "o", "n">>,
              <<"f", "o", "o", ".", "r", "s">> }

\* The URL shapes of a git dependency: scheme://[www.]host/OWNER/NAME[.git]
\* and git@host:OWNER/NAME.git
GitArgs ==
    [form : {"http", "https"}, www : BOOLEAN, dotgit : BOOLEAN,
     host : {S_github, S_elsewhere}, owner : GitOwners, name : GitNames]
    \cup [form : {"ssh"}, www : {FALSE}, dotgit : {TRUE},
          host : {S_github, S_elsewhere}, owner : GitOwners, name : GitNames]

GitUrl(a) ==
    (IF a.form = "ssh" THEN S_gitAt \o a.host \o <<":">>
     ELSE S_http \o (IF a.form = "https" THEN <<"s">> ELSE <<>>) \o S_colonSlashes
          \o (IF a.www THEN S_www ELSE <<>>) \o a.host \o <<"/">>)
    \o a.owner \o <<"/">> \o a.name \o (IF a.dotgit THEN S_dotgit ELSE <<>>)

FnInit(args) ==
    /\ Idle
    /\ world = World
    /\ label = <<>>
    /\ once = <<>>
    /\ twice = <<>>
    /\ passes = 0
    /\ arg \in args
    /\ ret = <<>>
    /\ applied = FALSE

FnApply(value) ==
    /\ ~applied
    /\ ret' = value
    /\ applied' = TRUE
    /\ UNCHANGED <<arg, label, once, twice, passes>>
    /\ UNCHANGED pipevars

GitInit == FnInit(GitArgs)

\* repo_for_dependency is called for a git dependency
ResolveGit == FnApply(repo_for_git(GitUrl(arg)))

SpecGit == GitInit /\ [][ResolveGit]_vars

(***************************************************************************)
(* Repository::from_http_url, with Url::parse as far as these URLs need it *)
(***************************************************************************)
GITHUB_HOSTS == {S_github, S_www \o S_github}

RECURSIVE FindAny(_, _, _)
\* First position from i on that holds a character of cs; Len(u) + 1 if none does
FindAny(u, i, cs) ==
    IF i > Len(u) THEN Len(u) + 1
    ELSE IF u[i] \in cs THEN i ELSE FindAny(u, i + 1, cs)

RECURSIVE SkipAll(_, _, _)
\* First position from i on that holds no character of cs
SkipAll(u, i, cs) ==
    IF i <= Len(u) /\ u[i] \in cs THEN SkipAll(u, i + 1, cs) ELSE i

RECURSIVE SplitAt(_, _, _)
\* str::split(c), from an accumulated piece
SplitAt(t, c, cur) ==
    IF t = <<>> THEN <<cur>>
    ELSE IF Head(t) = c THEN <<cur>> \o SplitAt(Tail(t), c, <<>>)
    ELSE SplitAt(Tail(t), c, Append(cur, Head(t)))

\* A scheme is a letter followed by letters, digits, '+', '-' and '.'
IsScheme(t) ==
    /\ t # <<>>
    /\ t[1] \in LowerAscii \cup UpperAscii
    /\ \A i \in 1..Len(t) : t[i] \in LowerAscii \cup UpperAscii \cup Digits \cup {"+", "-", "."}

NoUrl == [ok |-> FALSE, host |-> <<>>, segments |-> <<>>]

\* Url::parse of an absolute http(s) URL: the scheme up to the first ':', the
\* slashes after it, the host up to the next '/', '?' or '#' (in lower case),
\* and the path up to '?' or '#', which is "/" when nothing is written
UrlParse(u) ==
    LET colon == FindAny(u, 1, {":"})
        scheme == to_lowercase(SubSeq(u, 1, colon - 1))
        hostAt == SkipAll(u, colon + 1, {"/", "\\"})
        hostEnd == FindAny(u, hostAt, {"/", "\\", "?", "#"})
        pathEnd == FindAny(u, hostEnd, {"?", "#"})
        path == SubSeq(u, hostEnd + 1, pathEnd - 1)
    IN IF colon > Len(u) \/ ~IsScheme(SubSeq(u, 1, colon - 1)) THEN NoUrl
       ELSE IF scheme \notin {S_http, S_http \o <<"s">>} THEN NoUrl
       ELSE IF hostEnd = hostAt THEN NoUrl
       ELSE [ok |-> TRUE,
             host |-> to_lowercase(SubSeq(u, hostAt, hostEnd - 1)),
             segments |-> SplitAt(path, "/", <<>>)]

\* str::strip of one trailing `suffix`
TrimEndOnce(t, suffix) ==
    IF Len(t) >= Len(suffix) /\ SubSeq(t, Len(t) - Len(suffix) + 1, Len(t)) = suffix
    THEN SubSeq(t, 1, Len(t) - Len(suffix))
    ELSE t

RECURSIVE trim_end_matches(_, _)
\* str::trim_end_matches: the suffix is removed as often as it is there
trim_end_matches(t, suffix) ==
    IF Len(t) >= Len(suffix) /\ SubSeq(t, Len(t) - Len(suffix) + 1, Len(t)) = suffix
    THEN trim_end_matches(SubSeq(t, 1, Len(t) - Len(suffix)), suffix)
    ELSE t

\* Repository::from_http_url
from_http_url(u) ==
    LET parsed == UrlParse(u) IN
    IF ~parsed.ok THEN None
    ELSE IF parsed.host \in GITHUB_HOSTS /\ Len(parsed.segments) = 2
         THEN Some(Repository(parsed.segments[1],
                              trim_end_matches(parsed.segments[2], S_dotgit)))
         ELSE None

\* Path segments a URL is written with
UrlSegments == { <<"X", "i", "o", "n">>, <<"g", "i", "s", "h", "t">>,
                 <<"c", "a", "l", "l", "e", "e">> \o S_dotgit,
                 <<"c", "a", "l", "l", "e", "e">> \o S_dotgit \o S_dotgit, <<>> }

MaxSegments == 3

\* URLs scheme://host/seg/.../seg, and the same text without a scheme (which is
\* no URL)
UrlArgs ==
    [scheme : {"http", "https", "none"},
     host : {S_github, S_www \o S_github, S_elsewhere},
     segs : UNION {[1..n -> UrlSegments] : n \in 0..MaxSegments}]

UrlText(a) ==
    (IF a.scheme = "none" THEN <<>>
     ELSE S_http \o (IF a.scheme = "https" THEN <<"s">> ELSE <<>>) \o S_colonSlashes)
    \o a.host
    \o (IF a.segs = <<>> THEN <<>> ELSE <<"/">> \o Join(a.segs, <<"/">>))

UrlInit == FnInit(UrlArgs)

ParseRepository == FnApply(from_http_url(UrlText(arg)))

SpecUrl == UrlInit /\ [][ParseRepository]_vars

(***************************************************************************)
(* repo_for_dependency: the `repository` and `homepage` fields of registry *)
(* metadata and of a path dependency's manifest                            *)
(***************************************************************************)
\* Option<String>
Absent == [present |-> FALSE, text |-> <<>>]
Present(t) == [present |-> TRUE, text |-> t]

\* opt.as_ref().and_then(Repository::from_http_url)
and_then_from_http_url(opt) == IF opt.present THEN from_http_url(opt.text) ELSE None

\* A lookup that tries `homepage` before `repository`
repo_from_fields_homepageFirst(repository, homepage) ==
    LET h == and_then_from_http_url(homepage)
    IN IF h.some THEN h ELSE and_then_from_http_url(repository)

\* repository.as_ref().and_then(from_http_url).or_else(|| <the same for homepage>):
\* what both the crates.io branch and the Filesystem branch do with the two fields
repo_from_fields(repository, homepage) ==
    LET r == and_then_from_http_url(repository)
    IN IF r.some THEN r ELSE and_then_from_http_url(homepage)

N_Xion == <<"X", "i", "o", "n">>
N_gisht == <<"g", "i", "s", "h", "t">>
N_callee == <<"c", "a", "l", "l", "e", "e">>

\* Values of a URL field, each with the repository it stands for
FieldValue(scheme, host, segs, denotes) ==
    [field |-> Present(UrlText([scheme |-> scheme, host |-> host, segs |-> segs])),
     denotes |-> denotes]

FieldValues ==
    { [field |-> Absent, denotes |-> None],
      FieldValue("https", S_github, <<N_Xion, N_gisht>>, Some(Repository(N_Xion, N_gisht))),
      FieldValue("http", S_www \o S_github, <<N_Xion, N_callee \o S_dotgit>>,
                 Some(Repository(N_Xion, N_callee))),
      FieldValue("https", S_github, <<N_callee, N_gisht>>, Some(Repository(N_callee, N_gisht))),
      FieldValue("https", S_elsewhere, <<N_Xion, N_gisht>>, None),
      FieldValue("none", S_github, <<N_Xion, N_gisht>>, None),
      FieldValue("https", S_github, <<N_gisht>>, None),
      FieldValue("https", S_github, <<N_Xion, N_gisht, N_callee>>, None) }

\* Where the two fields come from: crates.io metadata or a local manifest
FieldsArgs == [source : {"crates_io", "path"}, repository : FieldValues, homepage : FieldValues]

FieldsInit == FnInit(FieldsArgs)

\* The closure of the crates.io branch, or the last and_then of the Filesystem branch
ResolveFromFields == FnApply(repo_from_fields(arg.repository.field, arg.homepage.field))

SpecFields == FieldsInit /\ [][ResolveFromFields]_vars

(***************************************************************************)
(* repo_for_dependency for a registry dependency: Cargo's cache, then      *)
(* crates.io                                                               *)
(***************************************************************************)
\* semver::Version as <<major, minor, patch>>, ordered as Ord orders it
VersionLess(v, w) ==
    \/ v[1] < w[1]
    \/ v[1] = w[1] /\ v[2] < w[2]
    \/ v[1] = w[1] /\ v[2] = w[2] /\ v[3] < w[3]

\* VersionReq::matches for "*" and for the caret requirement a bare "x.y.z" is
matches(req, v) ==
    \/ req.op = "any"
    \/ /\ req.op = "caret"
       /\ ~VersionLess(v, req.v)
       /\ IF req.v[1] > 0 THEN v[1] = req.v[1]
          ELSE IF req.v[2] > 0 THEN v[1] = 0 /\ v[2] = req.v[2]
          ELSE v = req.v

CachedVersions == {<<0, 9, 0>>, <<1, 0, 0>>, <<1, 2, 0>>, <<2, 0, 0>>}

Requirements ==
    { [op |-> "any", v |-> <<0, 0, 0>>],
      [op |-> "caret", v |-> <<0, 9, 0>>],
      [op |-> "caret", v |-> <<1, 0, 0>>],
      [op |-> "caret", v |-> <<1, 2, 0>>],
      [op |-> "caret", v |-> <<3, 0, 0>>] }

\* What is at <cached directory>/Cargo.toml
ManifestStates == {"ok", "missing", "unreadable"}

MaxCachedDirs == 2

\* The dependency is the package "foo"; "foo-bar" is another package of the registry
CachedPackages == {"foo", "foo-bar"}

\* The directories {root}/*/{package}-{version} that the pattern {root}/*/foo-* meets
CachedDirs == [package : CachedPackages, version : CachedVersions]

\* The cache: the directories the glob yields, each with the state of its manifest
Caches ==
    UNION {[S -> ManifestStates] :
              S \in {T \in SUBSET CachedDirs : Cardinality(T) <= MaxCachedDirs}}

\* The `repository` and `homepage` of the package, in its manifest and at crates.io
PackageFields ==
    [repository :
        { [field |-> Absent, denotes |-> None],
          FieldValue("https", S_github, <<N_Xion, N_gisht>>, Some(Repository(N_Xion, N_gisht))),
          FieldValue("https", S_elsewhere, <<N_Xion, N_gisht>>, None) },
     homepage :
        { [field |-> Absent, denotes |-> None],
          FieldValue("https", S_github, <<N_callee, N_gisht>>,
                     Some(Repository(N_callee, N_gisht))),
          FieldValue("https", S_elsewhere, <<N_callee, N_gisht>>, None) }]

\* root: the home directory is known; stray: the glob also yields a directory
\* whose name does not end in "-{version}", such as foo-1.0.0-beta
CacheArgs ==
    [root : BOOLEAN, stray : BOOLEAN, cache : Caches, req : Requirements,
     fields : PackageFields]

NoVersion == [package |-> "", version |-> <<>>]

\* The directories that pass the filter_map: the last `-` piece of the name
\* is a version that matches the requirement
Matching(a) == {d \in DOMAIN a.cache : matches(a.req, d.version)}

\* The order of the sorted directories: by version, and for one version the
\* order of the glob, which is the order of the names ("foo-1" before "foo-b")
DirLess(d, e) ==
    \/ VersionLess(d.version, e.version)
    \/ d.version = e.version /\ d.package = "foo" /\ e.package # "foo"

\* sorted_by_key(version) ... next(): the first of the ascending order
FirstSorted(S) == CHOOSE d \in S : \A e \in S : ~DirLess(e, d)

CacheOutcome(outcome, selected) == [outcome |-> outcome, selected |-> selected]

read_cached_manifest(a) ==
    IF ~a.root THEN CacheOutcome("none", NoVersion)
    ELSE IF a.stray THEN CacheOutcome("panic", NoVersion)
    ELSE IF Matching(a) = {} THEN CacheOutcome("none", NoVersion)
    ELSE LET v == FirstSorted(Matching(a))
         IN IF a.cache[v] = "ok" THEN CacheOutcome("found", v)
            ELSE CacheOutcome("none", v)

CacheInit ==
    /\ Idle
    /\ world = World
    /\ label = <<>>
    /\ once = <<>>
    /\ twice = <<>>
    /\ passes = 0
    /\ arg \in CacheArgs
    /\ ret = [stage |-> "start", cached |-> CacheOutcome("none", NoVersion), events |-> <<>>,
              repo |-> None]
    /\ applied = FALSE

CacheStep(stage, cached, events, repo, done) ==
    /\ ret' = [stage |-> stage, cached |-> cached, events |-> events, repo |-> repo]
    /\ applied' = done
    /\ UNCHANGED <<arg, label, once, twice, passes>>
    /\ UNCHANGED pipevars

\* read_cached_manifest(dep.name(), version)
ReadCache ==
    /\ ret.stage = "start"
    /\ LET c == read_cached_manifest(arg)
       IN CacheStep(IF c.outcome = "panic" THEN "panicked" ELSE "cache_read",
                    c, <<"read_cached_manifest">>, None, c.outcome = "panic")

\* A resolution that never takes the cached manifest
CacheHit_never(c) == FALSE

\* if let Some(package) = read_cached_manifest(..)
CacheHit(c) == c.outcome = "found"

\* package.repository.as_ref().and_then(Repository::from_http_url)
repo_from_cached_fields(repository, homepage) == and_then_from_http_url(repository)

\* return Box::new(future::ok(package.repository ...))
ReturnCached ==
    /\ ret.stage = "cache_read"
    /\ CacheHit(ret.cached)
    /\ CacheStep("resolved", ret.cached, ret.events,
                 repo_from_cached_fields(arg.fields.repository.field,
                                         arg.fields.homepage.field), TRUE)

\* crates_io.lookup_crate(dep.name().to_owned()), which finds the crate
LookupRegistry ==
    /\ ret.stage = "cache_read"
    /\ ~CacheHit(ret.cached)
    /\ CacheStep("resolved", ret.cached, Append(ret.events, "lookup_crate"),
                 repo_from_fields(arg.fields.repository.field, arg.fields.homepage.field),
                 TRUE)

CacheNext == ReadCache \/ ReturnCached \/ LookupRegistry

SpecCache == CacheInit /\ [][CacheNext]_vars

(***************************************************************************)
(* repo_for_dependency for a path dependency                               *)
(***************************************************************************)
\* A path is the sequence of its components; an absolute one starts at the root.
\* A file system is what is at each directory that exists: "empty" (no
\* Cargo.toml), "ok" (a manifest with a [package]) or "bad" (one that does not load).
D_root == <<>>
D_ws == <<"ws">>
D_proj == <<"ws", "proj">>
D_sib == <<"ws", "sib">>
D_sub == <<"ws", "proj", "sub">>
D_subsub == <<"ws", "proj", "sub", "sub">>

DirStates == {"empty", "ok", "bad"}

FileSystems ==
    { fs \in UNION {[{D_root, D_ws, D_proj} \cup S -> DirStates] :
                        S \in SUBSET {D_sib, D_sub, D_subsub}} :
        /\ fs[D_root] = "empty"
        /\ fs[D_ws] = "empty"
        /\ fs[D_proj] = "ok"
        /\ D_subsub \in DOMAIN fs => D_sub \in DOMAIN fs }

\* The `path` attribute of the dependency, relative to the manifest's directory
RelativePaths ==
    { <<"sub">>, <<".", "sub">>, <<"sub", "sub">>, <<"..", "sib">>, <<".">>,
      <<"..", "proj", "sub">>, <<"sib">>, <<"proj">>, <<"proj", "sub">> }

\* dir: the directory of the manifest that lists the dependency
PathArgs == [dir : {D_proj, D_ws}, path : RelativePaths, fs : FileSystems]

NoPath == [ok |-> FALSE, at |-> <<>>]

Parent(d) == IF d = <<>> THEN <<>> ELSE SubSeq(d, 1, Len(d) - 1)

RECURSIVE Walk(_, _, _)
\* How the system resolves a path component by component, from directory cur
Walk(fs, cur, rel) ==
    IF rel = <<>> THEN [ok |-> TRUE, at |-> cur]
    ELSE LET c == Head(rel)
             nxt == IF c = "." THEN cur
                    ELSE IF c = ".." THEN Parent(cur)
                    ELSE Append(cur, c)
         IN IF nxt \in DOMAIN fs THEN Walk(fs, nxt, Tail(rel)) ELSE NoPath

\* Path::join of a relative path
join(base, rel) == base \o rel

\* Path::canonicalize
canonicalize(fs, p) == Walk(fs, D_root, p)

\* cargo_toml::read_package(file): the directory whose Cargo.toml is loaded
read_package(fs, file) ==
    LET d == Walk(fs, D_root, Parent(file))
    IN IF d.ok /\ fs[d.at] = "ok" THEN d ELSE NoPath

\* The field values of every manifest of the file system
PackageRepository == Present(UrlText([scheme |-> "https", host |-> S_github,
                                      segs |-> <<N_Xion, N_gisht>>]))

PathOutcome(failed, read, repo) == [failed |-> failed, read |-> read, repo |-> repo]

\* The Filesystem branch: the future is always a success
repo_for_path(a) ==
    LET manifest_dir == canonicalize(a.fs, join(a.dir, a.path))
    IN IF ~manifest_dir.ok THEN PathOutcome(FALSE, NoPath, None)
       ELSE LET p == read_package(a.fs, join(join(manifest_dir.at, a.path), <<"Cargo.toml">>))
            IN IF ~p.ok THEN PathOutcome(FALSE, NoPath, None)
               ELSE PathOutcome(FALSE, p, repo_from_fields(PackageRepository, Absent))

PathInit == FnInit(PathArgs)

ResolvePath == FnApply(repo_for_path(arg))

SpecPath == PathInit /\ [][ResolvePath]_vars

(***************************************************************************)
(* list_dependencies and Dependency::from_toml                             *)
(***************************************************************************)
MaxEntries == 2

\* A value of the [dependencies] table.  shape: a TOML string, a table or
\* anything else; version, path, git: what the entry has under that key:
\* nothing ("absent"), a string ("string"; for version "valid" or "invalid" as a
\* semver requirement) or a value of another type ("other").
Entries ==
    [shape : {"string"}, version : {"valid", "invalid"}, path : {"absent"}, git : {"absent"}]
    \cup [shape : {"other"}, version : {"absent"}, path : {"absent"}, git : {"absent"}]
    \cup [shape : {"table"}, version : {"absent", "valid", "invalid", "other"},
          path : {"absent", "string", "other"}, git : {"absent", "string", "other"}]

EntryLists == UNION {[1..n -> Entries] : n \in 0..MaxEntries}

\* file: whether the manifest opens, is TOML, and what its `dependencies` key is
ManifestArgs ==
    [file : {"table"}, entries : EntryLists]
    \cup [file : {"unreadable", "not_toml", "no_dependencies", "not_a_table"},
          entries : {<<>>}]

Ok(v) == [tag |-> "Ok", value |-> v]
Err(e) == [tag |-> "Err", value |-> e]
Panic == [tag |-> "Panic", value |-> "unwrap"]

\* Dependency::with_version: "*" or VersionReq::parse(version).unwrap()
with_version(version) == IF version = "valid" THEN Ok("Registry") ELSE Panic

\* Dependency::from_toml: only string values count as attributes
from_toml(e) ==
    IF e.shape = "other" THEN Err("Toml")
    ELSE LET v == e.version \in {"valid", "invalid"}
             p == e.path = "string"
             g == e.git = "string"
         IN IF v /\ ~p /\ ~g THEN with_version(e.version)
            ELSE IF ~v /\ p /\ ~g THEN Ok("Filesystem")
            ELSE IF ~v /\ ~p /\ g THEN Ok("Git")
            ELSE Err("Toml")

RECURSIVE Collect(_, _)
\* t.iter().map(from_toml).collect::<Result<Vec<_>, _>>(): the first entry that
\* is not Ok ends the iteration
Collect(es, acc) ==
    IF es = <<>> THEN Ok(acc)
    ELSE LET d == from_toml(Head(es))
         IN IF d.tag = "Ok" THEN Collect(Tail(es), Append(acc, d.value)) ELSE d

list_dependencies(a) ==
    IF a.file = "unreadable" THEN Err("Io")
    ELSE IF a.file = "not_toml" THEN Err("Toml")
    ELSE IF a.file = "no_dependencies" THEN Ok(<<>>)
    ELSE IF a.file = "not_a_table" THEN Err("Toml")
    ELSE Collect(a.entries, <<>>)

ManifestInit ==
    /\ Idle
    /\ world = World
    /\ label = <<>>
    /\ once = <<>>
    /\ twice = <<>>
    /\ passes = 0
    /\ arg \in ManifestArgs
    /\ ret = [stage |-> "start", listed |-> Ok(<<>>), deps |-> <<>>]
    /\ applied = FALSE

ManifestStep(stage, listed, ds, done) ==
    /\ ret' = [stage |-> stage, listed |-> listed, deps |-> ds]
    /\ applied' = done
    /\ UNCHANGED <<arg, label, once, twice, passes>>
    /\ UNCHANGED pipevars

\* let mut deps = cargo_toml::list_dependencies(manifest_path)
ListDependencies ==
    /\ ret.stage = "start"
    /\ LET l == list_dependencies(arg)
       IN ManifestStep(IF l.tag = "Panic" THEN "panicked" ELSE "listed", l, <<>>,
                       l.tag = "Panic")

\* the `?`: suggest_issues returns the error, no stream is built
ReturnManifestError ==
    /\ ret.stage = "listed"
    /\ ret.listed.tag = "Err"
    /\ ManifestStep("returned_err", ret.listed, <<>>, TRUE)

\* stream::iter_ok(deps): the dependencies the resolution will go through
BuildStream ==
    /\ ret.stage = "listed"
    /\ ret.listed.tag = "Ok"
    /\ ManifestStep("streaming", ret.listed, ret.listed.value, TRUE)

ManifestNext == ListDependencies \/ ReturnManifestError \/ BuildStream

SpecManifest == ManifestInit /\ [][ManifestNext]_vars

(***************************************************************************)
(* main and suggest_contributions: the exit status of the process          *)
(***************************************************************************)
MaxRunIssues == 1

\* What the command line is: fine, rejected by clap, or with a --count that is no number
Argvs == {"ok", "unknown_flag", "bad_count"}

\* What core.run meets: the stream yields `issues` issues and then ends or fails
RunOutcomes == [issues : 0..MaxRunIssues, ends : {"None", "Err"}]

\* core: Core::new() succeeds; is_file: manifest_path.is_file(); format: the
\* --format string, none or one that strfmt rejects
MainArgs ==
    [argv : Argvs, core : BOOLEAN, is_file : BOOLEAN,
     manifest : {a \in ManifestArgs : Len(a.entries) <= 1},
     format : {"default", "bad"}, run : RunOutcomes]

MainInit ==
    /\ Idle
    /\ world = World
    /\ label = <<>>
    /\ once = <<>>
    /\ twice = <<>>
    /\ passes = 0
    /\ arg \in MainArgs
    /\ ret = [stage |-> "start", exit |-> Unset]
    /\ applied = FALSE

\* The process goes on to the next stage
Proceed(stage) ==
    /\ ret' = [stage |-> stage, exit |-> Unset]
    /\ applied' = FALSE
    /\ UNCHANGED <<arg, label, once, twice, passes>>
    /\ UNCHANGED pipevars

\* exit(code), or the abort of a panic
Exit(stage, code) ==
    /\ ret' = [stage |-> stage, exit |-> code]
    /\ applied' = TRUE
    /\ UNCHANGED <<arg, label, once, twice, passes>>
    /\ UNCHANGED pipevars

\* args::parse().unwrap_or_else(.. exit(exitcode::USAGE))
ParseArgs ==
    /\ ret.stage = "start"
    /\ IF arg.argv = "ok" THEN Proceed("parsed") ELSE Exit("exited", "USAGE")

\* Core::new().unwrap_or_else(.. exit(exitcode::TEMPFAIL))
NewCore ==
    /\ ret.stage = "parsed"
    /\ IF arg.core THEN Proceed("core") ELSE Exit("exited", "TEMPFAIL")

\* if !manifest_path.is_file() { exit(exitcode::DATAERR) }
FindManifest ==
    /\ ret.stage = "core"
    /\ IF arg.is_file THEN Proceed("manifest_found") ELSE Exit("exited", "DATAERR")

\* producer.suggest_issues(manifest_path).unwrap_or_else(.. exit(exitcode::IOERR));
\* a panic inside it aborts the process
SuggestIssues ==
    /\ ret.stage = "manifest_found"
    /\ LET l == list_dependencies(arg.manifest)
       IN IF l.tag = "Ok" THEN Proceed("running")
          ELSE IF l.tag = "Err" THEN Exit("exited", "IOERR")
          ELSE Exit("aborted", "PANIC")

\* What for_each meets first: the failure of print_issue on the first issue,
\* or what the stream ends with
RunResult(a) ==
    IF a.format = "bad" /\ a.run.issues > 0 THEN "Err" ELSE a.run.ends

\* core.run(issues.for_each(..)).unwrap_or_else(.. exit(exitcode::TEMPFAIL)); exit(exitcode::OK)
RunCore ==
    /\ ret.stage = "running"
    /\ Exit("exited", ExitStatus(RunResult(arg), Unset))

MainNext == ParseArgs \/ NewCore \/ FindManifest \/ SuggestIssues \/ RunCore

SpecMain == MainInit /\ [][MainNext]_vars

(***************************************************************************)
(* Vocabulary of the properties                                            *)
(***************************************************************************)
Range(q) == {q[i] : i \in 1..Len(q)}

NoDuplicates(q) == \A i, j \in 1..Len(q) : q[i] = q[j] => i = j

IssueOf(r, i) == [repo |-> r, number |-> i]

\* A label list with a label whose canonical form is on the allow-list
OnAllowList(labels) ==
    \E i \in 1..Len(labels) : canonicalize_label(labels[i]) \in ISSUE_LABELS

\* The label-matching issues among those the searches have yielded
MatchingIssues(h) ==
    UNION { {IssueOf(r, i) : i \in {j \in 1..Len(h[r]) : OnAllowList(h[r][j])}}
            : r \in Repos }

\* Recoverable page-fetch failures: rate limit, 422 and 403
Recoverable(e) ==
    \/ e.kind = "RateLimit"
    \/ e.kind = "Fault" /\ e.code \in {422, 403}

\* Every other failure of a page fetch
Fatal(e) == e # NoError /\ ~Recoverable(e)

\* The merged stream itself has ended: for_each saw its end while take() still polled
MergeEnded == pc = "exited" /\ exit = "OK" /\ TakePolls(remaining) /\ flat = "Stream"

(***************************************************************************)
(* Properties                                                              *)
(***************************************************************************)

\* C1: in every run the issue search is opened exactly once for every
\* repository some dependency resolved to, however many dependencies resolved
\* to it, and never for another; the dedup set holds exactly the repositories
\* met in this run (so it is empty when the run starts).
C1_SearchOpenedOncePerRepo ==
    /\ \A r \in Repos : opened[r] = (IF hits[r] > 0 THEN 1 ELSE 0)
    /\ pc = "running" => repo_set = Known(hits)
    /\ NoDuplicates(srcs)

C1_Witness ==
    \E r \in Repos : hits[r] >= 2 /\ opened[r] = 1 /\ Len(srcs) >= 2

\* C2: with no failing search and no count limit, once the merged stream has
\* ended every opened search is exhausted and the output holds, each exactly
\* once, exactly the label-matching issues the searches yielded.
C2_MergeComplete ==
    (/\ pc = "exited"
     /\ count = NoLimit
     /\ errors = <<>>
     /\ \A r \in Repos : status[r] \notin {"quiet", "failed"})
    => /\ \A r \in Known(hits) : status[r] = "exhausted"
       /\ NoDuplicates(out)
       /\ Range(out) = MatchingIssues(hist)

C2_Witness ==
    /\ pc = "exited"
    /\ count = NoLimit
    /\ \A r \in Repos : status[r] = "exhausted" /\ hist[r] # <<>>
    /\ Len(out) = 3

\* C3: a page fetch that fails with a rate limit, 422 or 403 ends that
\* repository's sequence quietly: the error is never surfaced, what was emitted
\* stays emitted, nothing more is taken from that repository, and the run goes
\* on as long as another repository's sequence is still open.
C3_QuietInv ==
    /\ \A r \in Repos : Recoverable(cause[r]) => status[r] = "quiet"
    /\ \A i \in 1..Len(errors) :
          ~(errors[i].source = "GitHub" /\ Recoverable(errors[i]))

C3_QuietStep ==
    \A r \in Repos :
       /\ (status[r] = "quiet" /\ pc' # "idle")
            => hist'[r] = hist[r] /\ status'[r] = "quiet" /\ cause'[r] = cause[r]
       /\ (status[r] = "active" /\ status'[r] = "quiet")
            => /\ SubSeq(out', 1, Len(out)) = out
               /\ (\E q \in Repos : status'[q] = "active")
                     => (pc' = "running" \/ Len(errors') > Len(errors))

C3_RecoverableEndsQuietly == []C3_QuietInv /\ [][C3_QuietStep]_vars

C3_Witness ==
    \E r, q \in Repos :
       /\ r # q
       /\ status[r] = "quiet"
       /\ cause[r] = HubcapsError("Fault", 403)
       /\ out = <<IssueOf(r, 1), IssueOf(q, 1)>>
       /\ pc = "exited" /\ exit = "OK"

\* C4: a page fetch that fails in any other way is surfaced as it is: the
\* run is over, its only error is that failure (as Error::GitHub) and the exit
\* status is TEMPFAIL.
C4_FatalSurfaces ==
    \A r \in Repos :
       Fatal(cause[r]) =>
          /\ pc = "exited"
          /\ exit = "TEMPFAIL"
          /\ errors = <<SurfacedError("GitHub", cause[r])>>

C4_Witness ==
    \E r \in Repos :
       /\ cause[r] = HubcapsError("Fault", 500)
       /\ exit = "TEMPFAIL"
       /\ out # <<>>
       /\ \E q \in Repos : status[q] = "active"

\* C5 as claimed: a failed crates.io lookup never ends the issue stream with an
\* error (the run goes on with the other dependencies).
C5_LookupFailureSkipped ==
    lookupFailed => (errors = <<>> /\ exit # "TEMPFAIL")

\* C5 amended: a failed crates.io lookup fails the fold: the run is over with
\* that failure (as Error::CratesIo) as its only error and exit status TEMPFAIL,
\* no issue was emitted and no search was polled.
C5_LookupFailureSurfaces ==
    lookupFailed =>
       /\ pc = "exited"
       /\ exit = "TEMPFAIL"
       /\ Len(errors) = 1 /\ errors[1].source = "CratesIo"
       /\ out = <<>>
       /\ \A r \in Repos : hist[r] = <<>> /\ status[r] \in {"unopened", "active"}
       /\ flat = "Eof"

C5_Witness ==
    /\ lookupFailed
    /\ deps # <<>>
    /\ srcs # <<>>

\* C6: the merged stream ends only when no search is open any more, and
\* every run comes to an end (which, with no error and no count limit reached,
\* is the end of the merged stream).
C6_EndInv == MergeEnded => \A r \in Repos : status[r] \notin {"active"}

C6_MergeEndsWithSources == []C6_EndInv /\ (pc = "running" ~> pc = "exited")

C6_Witness ==
    /\ MergeEnded
    /\ Len(srcs) = MaxLiveDeps
    /\ \E r, q \in Repos : status[r] = "quiet" /\ status[q] = "exhausted"
    /\ out # <<>>

\* C7: at most one error is ever surfaced; it ends the run with TEMPFAIL;
\* it is the failure of the one search that failed; and once it is surfaced no
\* issue is emitted and nothing is taken from any search.
C7_ErrorInv ==
    /\ Len(errors) <= 1
    /\ errors # <<>> => pc = "exited" /\ exit = "TEMPFAIL"
    /\ \A r \in Repos :
          status[r] = "failed" =>
             /\ errors = <<SurfacedError("GitHub", cause[r])>>
             /\ \A q \in Repos \ {r} : status[q] # "failed"

C7_ErrorStep ==
    (errors # <<>> /\ pc' # "idle")
       => out' = out /\ hist' = hist /\ status' = status /\ errors' = errors

C7_OneErrorThenSilence == []C7_ErrorInv /\ [][C7_ErrorStep]_vars

C7_Witness ==
    /\ Len(errors) = 1
    /\ errors[1].source = "GitHub"
    /\ out # <<>>
    /\ Cardinality({r \in Repos : status[r] = "active"}) = 2

\* C8: with a count limit N at most N issues are emitted; once N are
\* emitted the next poll ends the run without touching any search; with N = 0
\* nothing is resolved, opened or polled at all.
C8_LimitInv ==
    count # NoLimit =>
       /\ Len(out) <= count
       /\ remaining = count - Len(out)
       /\ count = 0 =>
             /\ srcs = <<>> /\ errors = <<>>
             /\ \A r \in Repos : opened[r] = 0 /\ hist[r] = <<>>

C8_LimitStep ==
    (count # NoLimit /\ Len(out) = count /\ pc = "running")
       => /\ pc' = "exited" /\ exit' = "OK"
          /\ UNCHANGED <<out, hist, status, flag, fused, srcs, errors>>

C8_CountLimit == []C8_LimitInv /\ [][C8_LimitStep]_vars

C8_Witness ==
    /\ count = 1
    /\ Len(out) = 1
    /\ pc = "exited" /\ exit = "OK"
    /\ \E r \in Repos : status[r] = "active" /\ out[1].repo # r

\* C9: the emitted issues are exactly the yielded issues with a label whose
\* canonical form is on the allow-list; issues with no such label (no label at
\* all, or only labels like "documentation") are never emitted.
C9_OutputIsLabelMatch ==
    /\ Range(out) = MatchingIssues(hist)
    /\ NoDuplicates(out)

C9_Witness ==
    \E r \in Repos :
       /\ Len(hist[r]) = 2
       /\ hist[r][1] = <<LblDocumentation>>
       /\ hist[r][2] = <<LblBug, LblGoodFirstIssue>>
       /\ out = <<IssueOf(r, 2)>>

\* C10: canonicalizing a canonical label changes nothing
\* (canonicalize_label(canonicalize_label(s)) = canonicalize_label(s)).
C10_Idempotent == passes = 2 => twice = once

\* C11: every entry of ISSUE_LABELS is its own canonical form, so a
\* label spelled exactly like an entry is on the allow-list once canonicalized.
C11_EntriesAreCanonical ==
    (passes >= 1 /\ arg.entry) =>
       /\ label \in ISSUE_LABELS
       /\ once = label
       /\ OnAllowList(<<label>>)

C11_Witness ==
    /\ passes >= 1
    /\ arg.entry
    /\ label = <<"g", "o", "o", "d", " ", "f", "i", "r", "s", "t", " ",
                 "i", "s", "s", "u", "e">>
    /\ once = label

\* C12: every spelling of "help wanted" that differs from it only in
\* letter case, in non-alphanumeric characters inside the words and in the
\* whitespace before, between and after the words has the canonical form
\* "help wanted", the words joined by single spaces.
C12_SpellingInsensitive ==
    (passes >= 1 /\ ~arg.entry) =>
       once = <<"h", "e", "l", "p", " ", "w", "a", "n", "t", "e", "d">>

\* C13: a git dependency whose URL has one of the shapes
\* http(s)://[www.]github.com/OWNER/NAME[.git] or git@github.com:OWNER/NAME.git
\* resolves to Repository{OWNER, NAME}, whatever letters, digits, '-', '_', '.'
\* OWNER and NAME are made of; a URL on another host resolves to nothing.
C13_GitUrlShapes ==
    applied =>
       ret = (IF arg.host = S_github THEN Some(Repository(arg.owner, arg.name)) ELSE None)

\* C14: from_http_url returns a repository exactly for a parseable URL
\* whose host is github.com or www.github.com and whose path has exactly two
\* segments: the owner is the first segment, the name the second one without a
\* trailing ".git"; for every other string it returns nothing.
C14_FromHttpUrl ==
    applied =>
       ret = (IF /\ arg.scheme # "none"
                 /\ arg.host \in GITHUB_HOSTS
                 /\ Len(arg.segs) = 2
              THEN Some(Repository(arg.segs[1], TrimEndOnce(arg.segs[2], S_dotgit)))
              ELSE None)

\* C15: from registry metadata and from a path dependency's manifest the
\* repository is the one `repository` stands for if it stands for any, else the
\* one `homepage` stands for, else none.
C15_RepositoryBeforeHomepage ==
    applied =>
       ret = (IF arg.repository.denotes.some THEN arg.repository.denotes
              ELSE arg.homepage.denotes)

C15_Witness ==
    /\ applied
    /\ arg.repository.denotes.some
    /\ arg.homepage.denotes.some
    /\ arg.repository.denotes # arg.homepage.denotes
    /\ ret = arg.repository.denotes

\* C16: when the cache yields a manifest it is the one of the highest cached
\* version that satisfies the requirement; a version that does not satisfy it
\* is never selected.
C16_HighestCachedVersion ==
    (applied /\ ret.stage = "resolved" /\ ret.cached.outcome = "found") =>
       /\ ret.cached.selected \in Matching(arg)
       /\ \A d \in Matching(arg) :
             d.package = "foo" => ~VersionLess(ret.cached.selected.version, d.version)

\* C17: the cache is read first; the crates.io lookup follows exactly when the
\* cache gave nothing (no cache root, no satisfying version, or the selected
\* entry without a readable Cargo.toml); with a cached manifest no request is made.
C17_RegistryOnlyAfterCacheMiss ==
    (applied /\ ret.stage = "resolved") =>
       LET nothing == \/ ~arg.root
                      \/ Matching(arg) = {}
                      \/ arg.cache[ret.cached.selected] \in {"missing", "unreadable"}
       IN /\ nothing => ret.events = <<"read_cached_manifest", "lookup_crate">>
          /\ ~nothing => ret.events = <<"read_cached_manifest">>

C17_Witness ==
    /\ applied
    /\ ret.stage = "resolved"
    /\ arg.root
    /\ ret.cached.outcome = "found"
    /\ \E d \in DOMAIN arg.cache : ~matches(arg.req, d.version)
    /\ ret.events = <<"read_cached_manifest">>

\* C18: for a path dependency with relative path P listed in manifest M, the
\* manifest that is read is the Cargo.toml of canonicalize(dir(M)/P).
C18_ReadsManifestOfDependency ==
    applied =>
       LET target == canonicalize(arg.fs, join(arg.dir, arg.path))
       IN (target.ok /\ arg.fs[target.at] = "ok") => ret.read = target

\* C19: a path dependency whose directory does not resolve or whose manifest
\* does not load resolves to nothing: the step that resolves it puts no error
\* on the stream, ends nothing and leaves every search as it was, and no error
\* of a run comes from the resolution unless crates.io failed a lookup.
C19_PathFailureIsNotFound ==
    [][(pathFailures' > pathFailures) =>
          /\ errors' = errors
          /\ pc' = pc
          /\ exit' = exit
          /\ flat' = flat
          /\ srcs' = srcs
          /\ status' = status
          /\ out' = out]_vars

C19_Witness ==
    /\ pathFailures > 0
    /\ pc = "exited"
    /\ exit = "OK"
    /\ errors = <<>>
    /\ out # <<>>

\* How many of version, path and git an entry has as a string
StringAttributes(e) ==
    (IF e.version \in {"valid", "invalid"} THEN 1 ELSE 0)
    + (IF e.path = "string" THEN 1 ELSE 0)
    + (IF e.git = "string" THEN 1 ELSE 0)

\* A string or a table with exactly one of the three
WellFormed(e) == e.shape # "other" /\ StringAttributes(e) = 1

LocationOf(e) ==
    IF e.version \in {"valid", "invalid"} THEN "Registry"
    ELSE IF e.path = "string" THEN "Filesystem" ELSE "Git"

\* C20: the dependencies that reach the resolution come from entries with
\* exactly one of version, path and git, each with the location of its
\* attribute; a manifest with any other entry makes suggest_issues return an
\* error with no dependency handed to the resolution.
C20_ExactlyOneLocation ==
    (applied /\ arg.file = "table") =>
       /\ ret.stage = "streaming" =>
             /\ Len(ret.deps) = Len(arg.entries)
             /\ \A i \in 1..Len(arg.entries) :
                   /\ WellFormed(arg.entries[i])
                   /\ ret.deps[i] = LocationOf(arg.entries[i])
       /\ (\E i \in 1..Len(arg.entries) : ~WellFormed(arg.entries[i])) =>
             /\ ret.stage = "returned_err"
             /\ ret.deps = <<>>

\* C21: reading a manifest never aborts: whatever the manifest holds, the read
\* ends in a value, and a registry dependency whose version string is not a
\* semver requirement makes it end in an error that suggest_issues returns.
C21_MalformedManifestIsError ==
    applied =>
       /\ ret.stage # "panicked"
       /\ (\E i \in 1..Len(arg.entries) :
              /\ WellFormed(arg.entries[i])
              /\ arg.entries[i].version = "invalid") => ret.stage = "returned_err"

\* A manifest that cannot be read or parsed: the file, its TOML, its
\* dependencies table, an entry of it or a version requirement is wrong
MalformedManifest(m) ==
    \/ m.file \in {"unreadable", "not_toml", "not_a_table"}
    \/ \E i \in 1..Len(m.entries) :
          ~WellFormed(m.entries[i]) \/ m.entries[i].version = "invalid"

\* C22: the exit status tells the outcome: usage for an argument error, data
\* error for a missing manifest, I/O error for a manifest that cannot be read
\* or parsed, transient failure for an error on the issue stream, and success
\* for a stream that ends without error, with or without issues.
C22_ExitStatusByOutcome ==
    applied =>
       IF arg.argv # "ok" THEN ret.exit = "USAGE"
       ELSE IF ~arg.core THEN TRUE
       ELSE IF ~arg.is_file THEN ret.exit = "DATAERR"
       ELSE IF MalformedManifest(arg.manifest) THEN ret.exit = "IOERR"
       ELSE IF arg.run.ends = "Err" THEN ret.exit = "TEMPFAIL"
       ELSE (arg.format = "default" \/ arg.run.issues = 0) => ret.exit = "OK"

\* C23: the searches join the merge as the resolution goes: when a dependency
\* has resolved to a repository and others are still unresolved, the merged
\* stream can already be polled for that repository's issues.
C23_SearchBeforeAllResolved ==
    (/\ pc = "running"
     /\ TakePolls(remaining)
     /\ srcs # <<>>
     /\ deps # <<>>) => ENABLED Poll

\* C24: the merge keeps the order of every source: two issues of the same
\* repository are emitted in the order in which its search yielded them.
C24_SourceOrderKept ==
    \A i, j \in 1..Len(out) :
       (i < j /\ out[i].repo = out[j].repo) => out[i].number < out[j].number

C24_Witness ==
    /\ Len(out) = 3
    /\ out[1].repo = out[3].repo
    /\ out[2].repo # out[1].repo
    /\ out[1].number < out[3].number

\* C25: while every merged search has an issue at hand, the merge goes round
\* the repositories: every N consecutive issues of the output, N being the
\* number of merged searches, hold one issue of each repository.
C25_RoundRobin ==
    Range(srcs) \subseteq world.ready =>
       \A i \in 1..(Len(out) - Len(srcs) + 1) :
          {out[k].repo : k \in i..(i + Len(srcs) - 1)} = Range(srcs)

\* C27: no source is starved: a merged search that always has its next issue
\* at hand sees at most 2^(N-1) issues of the other repositories emitted in a
\* row, N being the number of merged searches, whatever the others do.
C27_NoStarvation ==
    \A r \in world.ready \cap Range(srcs) :
       \A i \in 1..(Len(out) - 2^(Len(srcs) - 1)) :
          \E k \in i..(i + 2^(Len(srcs) - 1)) : out[k].repo = r

C27_Witness ==
    /\ Len(srcs) = 3
    /\ srcs[1] \in world.ready
    /\ Len(out) = 5
    /\ out[1].repo = srcs[1]
    /\ out[5].repo = srcs[1]
    /\ \A k \in 2..4 : out[k].repo # srcs[1]

\* C26: with a cached manifest the repository is the first of `repository` and
\* `homepage` that stands for one: a cached package with no usable `repository`
\* and a GitHub `homepage` resolves to the repository of the homepage.
C26_CachedManifestFields ==
    (applied /\ ret.stage = "resolved" /\ ret.cached.outcome = "found") =>
       ret.repo = (IF arg.fields.repository.denotes.some
                   THEN arg.fields.repository.denotes
                   ELSE arg.fields.homepage.denotes)

\* C28: the cached manifest that is selected for the dependency foo is one of
\* the package foo, never one of a package whose name only starts with "foo-".
C28_SelectedIsOwnPackage ==
    (applied /\ ret.cached.outcome = "found") => ret.cached.selected.package = "foo"

\* C29: whatever the directories under the cache root are called, the cache
\* lookup ends with a manifest or with nothing and the resolution goes on.
C29_CacheLookupNeverAborts ==
    applied => (ret.stage = "resolved" /\ ret.cached.outcome \in {"found", "none"})

\* The repositories whose search this run has opened
Searched == {r \in Repos : opened[r] > 0}

====
